---- MODULE Spec2Model ----
(***************************************************************************)
(* Distributed token-bucket rate limiter of grammy-bot-template:           *)
(*   - the Redis store with the atomic TOKEN_BUCKET_SCRIPT,                *)
(*   - RateLimitService (checkTokenBucket and the per-scope wrappers),     *)
(*   - the rateLimit middleware (the inbound gate).                        *)
(*                                                                         *)
(* Numbers.  Lua and JavaScript numbers are doubles.  Every token count    *)
(* the script can produce from integer capacities, integer requests,       *)
(* whole-second timestamps and a refill rate of r/60 tokens per second is  *)
(* a multiple of 1/60, so token counts are kept exactly, as integers in    *)
(* units of 1/Unit token, and a refill rate is kept in units per second    *)
(* (20/60 tokens per second = 20 units per second).  Floating-point        *)
(* rounding is not modelled.  Wall-clock time is in milliseconds.          *)
(***************************************************************************)
EXTENDS Integers, Sequences, FiniteSets, TLC

\* ----------------------------------------------------------------- bounds
\* The wall clock advances in steps of TickMs, MaxTicks times at most.
TickMs == 1000
MaxTicks == 2
\* Calls started in one behaviour of Spec: inbound requests and direct calls.
MaxRequests == 3
\* Capacities of the bucket configurations tried by EngineSpec: 1..MaxCap.
MaxCap == 2
\* Calls started in one behaviour of BurstSpec: a burst that exhausts the
\* largest bucket (30 tokens) and one call more.
MaxBurst == 31
\* The step of the wall clock in BurstSpec: two steps to the second.
BurstTickMs == 500

\* -------------------------------------------------------------- arithmetic
\* Sub-units per token.
Unit == 60

\* Mutant of Ceil: math.floor in its place.
Ceil_Floor(a, b) == a \div b

\* math.ceil(a / b) for b > 0.
Ceil(a, b) == -((-a) \div b)

\* Redis converts a Lua number of a script's reply to an integer by
\* dropping its fraction; a is a count of units.
LuaToInteger(a) == IF a >= 0 THEN a \div Unit ELSE -((-a) \div Unit)

Min(a, b) == IF a <= b THEN a ELSE b

Max(a, b) == IF a >= b THEN a ELSE b

\* JavaScript undefined, for the optional retryAfter.
undefined == -1

\* JavaScript truthiness of an optional number.
Truthy(x) == x # undefined /\ x # 0

\* a || b on optional numbers.
Or(a, b) == IF Truthy(a) THEN a ELSE b

\* -------------------------------------------------------------- the script
\* A store entry is <<>> (no such key) or <<record>>.
NoRec == <<>>

\* HMGET key tokens lastRefill, then "tonumber(..) or default".
CurrentTokens(entry, capacity) ==
    IF entry = NoRec THEN capacity * Unit ELSE entry[1].tokens

LastRefill(entry, now) ==
    IF entry = NoRec THEN now ELSE entry[1].lastRefill

\* Mutant of Refilled: nothing is added for the time elapsed.
Refilled_NoRefill(entry, capacity, refillRate, now) ==
    Min(capacity * Unit, CurrentTokens(entry, capacity))

\* Mutant of Refilled: the count is not capped at the capacity.
Refilled_Uncapped(entry, capacity, refillRate, now) ==
    LET elapsed == now - LastRefill(entry, now)
        tokensToAdd == elapsed * refillRate
    IN CurrentTokens(entry, capacity) + tokensToAdd

\* Lines 29-31: the refill.  elapsed is now - lastRefill as written.
Refilled(entry, capacity, refillRate, now) ==
    LET elapsed == now - LastRefill(entry, now)
        tokensToAdd == elapsed * refillRate
    IN Min(capacity * Unit, CurrentTokens(entry, capacity) + tokensToAdd)

\* math.ceil(capacity / refillRate), the EXPIRE argument, in seconds.
Ttl(capacity, refillRate) == Ceil(capacity * Unit, refillRate)

\* Mutant of the script: an allowed consume writes the count back without
\* the debit.
Script_NoDebit(entry, capacity, tokens, refillRate, now) ==
    LET currentTokens == Refilled(entry, capacity, refillRate, now)
        ttl == Ttl(capacity, refillRate)
    IN IF currentTokens >= tokens * Unit
       THEN [rec |-> [tokens |-> currentTokens, lastRefill |-> now],
             ttl |-> ttl,
             reply |-> <<1, LuaToInteger(capacity * Unit
                                         - (currentTokens - tokens * Unit))>>]
       ELSE [rec |-> [tokens |-> currentTokens, lastRefill |-> now],
             ttl |-> ttl,
             reply |-> <<0, 0, Ceil(tokens * Unit - currentTokens, refillRate)>>]

\* Mutant of the script: the comparison is > instead of >=.
Script_Strict(entry, capacity, tokens, refillRate, now) ==
    LET currentTokens == Refilled(entry, capacity, refillRate, now)
        ttl == Ttl(capacity, refillRate)
    IN IF currentTokens > tokens * Unit
       THEN [rec |-> [tokens |-> currentTokens - tokens * Unit, lastRefill |-> now],
             ttl |-> ttl,
             reply |-> <<1, LuaToInteger(capacity * Unit
                                         - (currentTokens - tokens * Unit))>>]
       ELSE [rec |-> [tokens |-> currentTokens, lastRefill |-> now],
             ttl |-> ttl,
             reply |-> <<0, 0, Ceil(tokens * Unit - currentTokens, refillRate)>>]

\* Mutant of the script: a denied consume moves lastRefill but writes back
\* the count it read, losing the refill.
Script_LostRefill(entry, capacity, tokens, refillRate, now) ==
    LET currentTokens == Refilled(entry, capacity, refillRate, now)
        ttl == Ttl(capacity, refillRate)
    IN IF currentTokens >= tokens * Unit
       THEN [rec |-> [tokens |-> currentTokens - tokens * Unit, lastRefill |-> now],
             ttl |-> ttl,
             reply |-> <<1, LuaToInteger(capacity * Unit
                                         - (currentTokens - tokens * Unit))>>]
       ELSE [rec |-> [tokens |-> CurrentTokens(entry, capacity), lastRefill |-> now],
             ttl |-> ttl,
             reply |-> <<0, 0, Ceil(tokens * Unit - currentTokens, refillRate)>>]

\* Mutant of the script: an allowed consume reports the tokens left.
Script_TokensLeft(entry, capacity, tokens, refillRate, now) ==
    LET currentTokens == Refilled(entry, capacity, refillRate, now)
        ttl == Ttl(capacity, refillRate)
    IN IF currentTokens >= tokens * Unit
       THEN [rec |-> [tokens |-> currentTokens - tokens * Unit, lastRefill |-> now],
             ttl |-> ttl,
             reply |-> <<1, LuaToInteger(currentTokens - tokens * Unit)>>]
       ELSE [rec |-> [tokens |-> currentTokens, lastRefill |-> now],
             ttl |-> ttl,
             reply |-> <<0, 0, Ceil(tokens * Unit - currentTokens, refillRate)>>]

\* The whole script: the fields it writes (HMSET), the seconds it gives to
\* EXPIRE and the reply it returns ({1, remaining} or {0, 0, retryAfter}).
TOKEN_BUCKET_SCRIPT(entry, capacity, tokens, refillRate, now) ==
    LET currentTokens == Refilled(entry, capacity, refillRate, now)
        ttl == Ttl(capacity, refillRate)
    IN IF currentTokens >= tokens * Unit
       THEN [rec |-> [tokens |-> currentTokens - tokens * Unit, lastRefill |-> now],
             ttl |-> ttl,
             reply |-> <<1, LuaToInteger(capacity * Unit
                                         - (currentTokens - tokens * Unit))>>]
       ELSE [rec |-> [tokens |-> currentTokens, lastRefill |-> now],
             ttl |-> ttl,
             reply |-> <<0, 0, Ceil(tokens * Unit - currentTokens, refillRate)>>]

\* ------------------------------------------------------------- the service
\* A TokenBucketConfig; refillRate in units per second.
PerChatConfig == [capacity |-> 20, refillRate |-> (20 * Unit) \div 60]

GlobalConfig == [capacity |-> 30, refillRate |-> 30 * Unit]

PerChatKey(chatId) == "rate:chat:" \o ToString(chatId)

\* Mutant of GlobalKey: the bot id is used as given, "" included.
GlobalKey_NoDefault(botId) == "rate:global:" \o botId

\* botId is "" when checkGlobalLimit is called without one.
GlobalKey(botId) == "rate:global:" \o (IF botId = "" THEN "default" ELSE botId)

BroadcastConfig == [capacity |-> 15, refillRate |-> (15 * Unit) \div 60]

BroadcastKey(botId) == "rate:broadcast:" \o (IF botId = "" THEN "default" ELSE botId)

\* The default of the wrappers' parameter tokens.
DefaultTokens == 1

\* A RateLimitResult built from the script's reply at wall-clock time nowMs.
ResultOf(reply, cfg, nowMs) ==
    LET retryAfter == IF Len(reply) >= 3 THEN reply[3] ELSE undefined
    IN [allowed |-> reply[1] = 1,
        remaining |-> reply[2],
        reset |-> nowMs + ((cfg.capacity * Unit) * 1000) \div cfg.refillRate,
        retryAfter |-> IF Truthy(retryAfter) THEN retryAfter * 1000 ELSE undefined]

\* Mutant of FailOpen: the fallback result denies.
FailOpen_Closed(cfg, nowMs) ==
    [allowed |-> FALSE, remaining |-> 0,
     reset |-> nowMs + 60000, retryAfter |-> undefined]

\* The result returned without the store: the service is disabled, or the
\* store call raised an error.
FailOpen(cfg, nowMs) ==
    [allowed |-> TRUE, remaining |-> cfg.capacity,
     reset |-> nowMs + 60000, retryAfter |-> undefined]

\* Math.floor(Date.now() / 1000)
NowSeconds(nowMs) == nowMs \div 1000

\* ------------------------------------------------------------------- state
Tasks == {"t1", "t2"}

\* The call of RedisService.healthCheck() that initializeRateLimiter starts
\* and does not await runs beside them.
AllTasks == Tasks \cup {"hc"}

\* The chat ids of inbound requests; 0 stands for a request without a chat.
ChatIds == {0, 12345}

\* ctx.me.id of the bot, as the string passed to checkGlobalLimit.
BotId == "999"

EngineKey == "test-key"

Keys ==
    {PerChatKey(c) : c \in ChatIds}
        \cup {GlobalKey(BotId), GlobalKey(""), EngineKey}
        \cup {BroadcastKey(BotId), BroadcastKey("")}

\* The keys whose consumes epoch and hist follow.
Observed == {EngineKey}

VARIABLES
    clock,        \* Date.now(), shared by the processes and the store
    store,        \* the Redis hashes: key -> NoRec or <<record>>
    config,       \* config.rateLimit of the bot process
    rateLimiter,  \* the middleware's module variable: <<>> is null
    service,      \* a RateLimitService used directly (enabled, redis)
    bucket,       \* the TokenBucketConfig of the direct checkTokenBucket calls
    task,         \* the concurrently running async calls
    requests,     \* inbound requests and direct calls started so far
    epoch,        \* per key: the run of one-token consumes at one timestamp
    hist          \* per key: the last denied consume and its successor

vars == <<clock, store, config, rateLimiter, service, bucket, task, requests,
          epoch, hist>>

NoCall == [kind |-> "", key |-> "", capacity |-> 0, tokens |-> 0, refillRate |-> 0,
           now |-> 0]

IdleTask ==
    [op |-> "none", pc |-> "idle", chatId |-> 0, cb |-> FALSE,
     ev |-> "none", call |-> NoCall, reply |-> <<>>,
     perChat |-> <<>>, global |-> <<>>,
     denied |-> FALSE, whichLimit |-> "", retryAfter |-> undefined,
     nextCalls |-> 0, sent |-> <<>>, calls |-> {}, errs |-> {}, wake |-> 0,
     stats |-> <<>>, scope |-> "", botId |-> "", method |-> ""]

NoEpoch == [on |-> FALSE, fresh |-> FALSE, now |-> 0, base |-> 0,
            total |-> 0, allowed |-> 0]

\* A RateLimitService as its constructor leaves it.  The module
\* redisService evaluates RedisService.getInstance() when it is loaded, so
\* the client exists whenever a service is constructed with enabled = true.
NewService(enabled) == [enabled |-> enabled, redis |-> enabled]

\* -------------------------------------------------------- checkTokenBucket
\* Mutant of CheckTokenBucket: the enabled flag is not consulted.
CheckTokenBucket_NoGuard(t, svc, key, cfg, tokens, pc) ==
    [t EXCEPT !.pc = pc, !.ev = "sent",
              !.calls = @ \cup {"eval"},
              !.call = [kind |-> "eval", key |-> key, capacity |-> cfg.capacity,
                        tokens |-> tokens, refillRate |-> cfg.refillRate,
                        now |-> NowSeconds(clock)]]

\* The synchronous part of checkTokenBucket, called by task t to continue
\* at pc: either the fallback result is returned at once (ev = "skipped"),
\* or the EVAL is sent with the second read from the clock.
CheckTokenBucket(t, svc, key, cfg, tokens, pc) ==
    IF ~svc.enabled \/ ~svc.redis
    THEN [t EXCEPT !.pc = pc, !.ev = "skipped",
                   !.call = [kind |-> "eval", key |-> key, capacity |-> cfg.capacity,
                             tokens |-> tokens, refillRate |-> cfg.refillRate,
                             now |-> 0]]
    ELSE [t EXCEPT !.pc = pc, !.ev = "sent",
                   !.calls = @ \cup {"eval"},
                   !.call = [kind |-> "eval", key |-> key, capacity |-> cfg.capacity,
                             tokens |-> tokens, refillRate |-> cfg.refillRate,
                             now |-> NowSeconds(clock)]]

\* The synchronous part of getStats(key) (kind = "hmget") and of reset(key)
\* (kind = "del"): nothing is sent by a disabled service.
ServiceCall(t, svc, kind, key) ==
    IF ~svc.enabled \/ ~svc.redis
    THEN [t EXCEPT !.pc = "call", !.ev = "skipped",
                   !.call = [NoCall EXCEPT !.kind = kind, !.key = key]]
    ELSE [t EXCEPT !.pc = "call", !.ev = "sent",
                   !.calls = @ \cup {kind},
                   !.call = [NoCall EXCEPT !.kind = kind, !.key = key]]

\* checkPerChatLimit(chatId), checkGlobalLimit(botId) and
\* checkBroadcastLimit(botId) with the default of tokens, called by task t.
CheckLimit(t, svc, scope, chatId, botId) ==
    LET me == [t EXCEPT !.op = "check", !.scope = scope, !.chatId = chatId,
                        !.botId = botId]
    IN IF scope = "chat"
       THEN CheckTokenBucket(me, svc, PerChatKey(chatId), PerChatConfig,
                             DefaultTokens, "call")
       ELSE IF scope = "global"
       THEN CheckTokenBucket(me, svc, GlobalKey(botId), GlobalConfig,
                             DefaultTokens, "call")
       ELSE CheckTokenBucket(me, svc, BroadcastKey(botId), BroadcastConfig,
                             DefaultTokens, "call")

\* What checkTokenBucket returns when the awaited call has ended.
Returned(t) ==
    LET cfg == [capacity |-> t.call.capacity, refillRate |-> t.call.refillRate]
    IN IF t.ev = "replied" THEN ResultOf(t.reply, cfg, clock)
       ELSE FailOpen(cfg, clock)

\* parseInt of a stored number: the digits before the decimal point.  a is
\* a count of units.
ParseInt(a) == IF a >= 0 THEN a \div Unit ELSE -((-a) \div Unit)

\* What getStats returns when the awaited HMGET has ended: the parsed
\* fields ("0" for a missing one), or zeros from the guard and the catch.
GetStats(t) ==
    IF t.ev = "replied" /\ t.reply # <<>>
    THEN [tokens |-> ParseInt(t.reply[1]), lastRefill |-> t.reply[2]]
    ELSE [tokens |-> 0, lastRefill |-> 0]

\* Mutant of ServiceReturn: the error of the store call is thrown on.
ServiceReturn_Rethrow(t) ==
    [thrown |-> t.ev = "failed",
     value |-> IF t.op = "check" THEN <<Returned(t)>>
               ELSE IF t.op = "hmget" THEN <<GetStats(t)>>
               ELSE <<>>]

\* How a direct call of checkTokenBucket, getStats or reset ends for its
\* caller: each method catches the error of its store call, so nothing is
\* thrown; value is <<result>>, or <<>> for reset's void.
ServiceReturn(t) ==
    [thrown |-> FALSE,
     value |-> IF t.op = "check" THEN <<Returned(t)>>
               ELSE IF t.op = "hmget" THEN <<GetStats(t)>>
               ELSE <<>>]

\* --------------------------------------------------------------- the store
\* The run of consecutive one-token consumes of a key that carry one
\* timestamp: base is the token count (units) the first of them found after
\* the refill; total stops counting one past the whole tokens of base.
NextEpoch(e, entry, c, allowed) ==
    LET got == IF allowed THEN 1 ELSE 0
        base == Refilled(entry, c.capacity, c.refillRate, c.now)
    IN IF c.tokens # 1 THEN NoEpoch
       ELSE IF e.on /\ entry # NoRec /\ c.now = e.now /\ c.now = entry[1].lastRefill
       THEN [e EXCEPT !.total = Min(@ + 1, Max(0, e.base \div Unit) + 1),
                      !.allowed = @ + got]
       ELSE [on |-> TRUE, fresh |-> entry = NoRec, now |-> c.now, base |-> base,
             total |-> 1, allowed |-> got]

\* One executed consume, as remembered in hist.
Executed(c, reply) ==
    [tokens |-> c.tokens, now |-> c.now, allowed |-> reply[1] = 1,
     retryAfter |-> IF Len(reply) >= 3 THEN reply[3] ELSE 0]

\* hist keeps a denial and the consume that followed it.
NextHist(h, x) ==
    IF h # <<>> /\ ~h[Len(h)].allowed THEN <<h[Len(h)], x>>
    ELSE IF x.allowed THEN <<>> ELSE <<x>>

\* The last instant of the clock.
Horizon == MaxTicks * TickMs

\* EXPIRE key ttl at store time ms: the time at which the key is dropped.  A
\* time the clock cannot reach is kept as the instant after the horizon.
ExpireAt(ms, ttl) == Min(ms + ttl * 1000, Horizon + 1)

\* Mutant of StoreEval: EXPIRE is applied to a new key only, so an access
\* does not refresh the time-to-live.
StoreEval_NoRefresh(t) ==
    /\ task[t].ev = "sent"
    /\ task[t].call.kind = "eval"
    /\ LET c == task[t].call
           out == TOKEN_BUCKET_SCRIPT(store[c.key], c.capacity, c.tokens,
                                      c.refillRate, c.now)
       IN /\ store' = [store EXCEPT ![c.key] =
                          <<[tokens |-> out.rec.tokens,
                             lastRefill |-> out.rec.lastRefill,
                             expireAt |-> IF store[c.key] = NoRec
                                          THEN ExpireAt(clock, out.ttl)
                                          ELSE store[c.key][1].expireAt]>>]
          /\ task' = [task EXCEPT ![t].ev = "replied", ![t].reply = out.reply]
          /\ epoch' = [k \in Observed |->
                          IF k = c.key
                          THEN NextEpoch(epoch[k], store[k], c, out.reply[1] = 1)
                          ELSE epoch[k]]
          /\ hist' = [k \in Observed |->
                         IF k = c.key THEN NextHist(hist[k], Executed(c, out.reply))
                         ELSE hist[k]]
    /\ UNCHANGED <<clock, config, rateLimiter, service, bucket, requests>>

\* Redis runs the script of task t's EVAL as one step.
StoreEval(t) ==
    /\ task[t].ev = "sent"
    /\ task[t].call.kind = "eval"
    /\ LET c == task[t].call
           out == TOKEN_BUCKET_SCRIPT(store[c.key], c.capacity, c.tokens,
                                      c.refillRate, c.now)
       IN /\ store' = [store EXCEPT ![c.key] =
                          <<[tokens |-> out.rec.tokens,
                             lastRefill |-> out.rec.lastRefill,
                             expireAt |-> ExpireAt(clock, out.ttl)]>>]
          /\ task' = [task EXCEPT ![t].ev = "replied", ![t].reply = out.reply]
          /\ epoch' = [k \in Observed |->
                          IF k = c.key
                          THEN NextEpoch(epoch[k], store[k], c, out.reply[1] = 1)
                          ELSE epoch[k]]
          /\ hist' = [k \in Observed |->
                         IF k = c.key THEN NextHist(hist[k], Executed(c, out.reply))
                         ELSE hist[k]]
    /\ UNCHANGED <<clock, config, rateLimiter, service, bucket, requests>>

\* HMGET key tokens lastRefill of task t: the two fields, or <<>> for nils.
StoreRead(t) ==
    /\ task[t].ev = "sent"
    /\ task[t].call.kind = "hmget"
    /\ LET entry == store[task[t].call.key]
       IN task' = [task EXCEPT ![t].ev = "replied",
                               ![t].reply = IF entry = NoRec THEN <<>>
                                            ELSE <<entry[1].tokens, entry[1].lastRefill>>]
    /\ UNCHANGED <<clock, store, config, rateLimiter, service, bucket, requests, epoch, hist>>

\* Mutant of StoreDel: the record is emptied, not deleted.
StoreDel_Zero(t) ==
    /\ task[t].ev = "sent"
    /\ task[t].call.kind = "del"
    /\ store' = [store EXCEPT ![task[t].call.key] =
                    IF @ = NoRec THEN @ ELSE <<[@[1] EXCEPT !.tokens = 0]>>]
    /\ task' = [task EXCEPT ![t].ev = "replied", ![t].reply = <<>>]
    /\ UNCHANGED <<clock, config, rateLimiter, service, bucket, requests, epoch, hist>>

\* DEL key of task t.
StoreDel(t) ==
    /\ task[t].ev = "sent"
    /\ task[t].call.kind = "del"
    /\ store' = [store EXCEPT ![task[t].call.key] = NoRec]
    /\ task' = [task EXCEPT ![t].ev = "replied", ![t].reply = <<>>]
    /\ UNCHANGED <<clock, config, rateLimiter, service, bucket, requests, epoch, hist>>

\* The store call of task t raises an error before the store has run it
\* (connection lost): the promise is rejected.
StoreError(t) ==
    /\ task[t].ev = "sent"
    /\ task' = [task EXCEPT ![t].ev = "failed"]
    /\ UNCHANGED <<clock, store, config, rateLimiter, service, bucket, requests, epoch, hist>>

\* The store has run the call of task t, but the reply does not arrive
\* (timeout): the promise is rejected.
ReplyLost(t) ==
    /\ task[t].ev = "replied"
    /\ task' = [task EXCEPT ![t].ev = "failed", ![t].reply = <<>>]
    /\ UNCHANGED <<clock, store, config, rateLimiter, service, bucket, requests, epoch, hist>>

\* Time passes; Redis drops the keys whose EXPIRE time has come.
Expired(entry, ms) == entry # NoRec /\ entry[1].expireAt <= ms

Tick ==
    /\ clock < Horizon
    /\ clock' = clock + TickMs
    /\ store' = [k \in Keys |-> IF Expired(store[k], clock') THEN NoRec ELSE store[k]]
    /\ UNCHANGED <<config, rateLimiter, service, bucket, task, requests, epoch, hist>>

\* ------------------------------------------------- direct checkTokenBucket
\* The rates tried by EngineSpec, in units per second: 1/3 and 2/3 token
\* per second.
EngineRates == {20, 40}

EngineConfigs ==
    {[capacity |-> c, refillRate |-> r] : c \in 1..MaxCap, r \in EngineRates}

Finished(t) == task[t].pc = "idle"

\* service.checkTokenBucket(EngineKey, bucket, tokens) is called.
EngineCall(t, tokens) ==
    /\ Finished(t)
    /\ task' = [task EXCEPT ![t] =
                   CheckTokenBucket([IdleTask EXCEPT !.op = "check"], service,
                                    EngineKey, bucket, tokens, "call")]
    /\ UNCHANGED <<clock, store, config, rateLimiter, service, bucket, requests, epoch, hist>>

\* The awaited store call of a direct service call has ended: the method
\* returns ServiceReturn(task[t]) to its caller, which ends the call.
Return(t) ==
    /\ task[t].pc = "call"
    /\ task[t].ev \in {"replied", "failed", "skipped"}
    /\ task' = [task EXCEPT ![t] = IdleTask]
    /\ UNCHANGED <<clock, store, config, rateLimiter, service, bucket, requests, epoch, hist>>

DefaultConfig ==
    [enabled |-> FALSE, onLimit |-> "reject", onRedisError |-> "allow",
     queueTimeout |-> 5000]

InitEngine ==
    /\ clock = 0
    /\ store = [k \in Keys |-> NoRec]
    /\ config = DefaultConfig
    /\ rateLimiter = <<>>
    /\ service = NewService(TRUE)
    /\ bucket \in EngineConfigs
    /\ task = [t \in AllTasks |-> IdleTask]
    /\ requests = 0
    /\ epoch = [k \in Observed |-> NoEpoch]
    /\ hist = [k \in Observed |-> <<>>]

NextEngine ==
    \/ \E t \in Tasks, n \in 1..(bucket.capacity + 1) : EngineCall(t, n)
    \/ \E t \in Tasks : StoreEval(t)
    \/ \E t \in Tasks : Return(t)
    \/ Tick

\* ---------------------------------------------------------- the middleware
\* Mutant of InitializeRateLimiter: the test of rateLimiter is left out.
InitializeRateLimiter_Unguarded ==
    IF config.enabled
    THEN [rateLimiter |-> <<NewService(TRUE)>>, ping |-> TRUE]
    ELSE [rateLimiter |-> rateLimiter, ping |-> FALSE]

\* initializeRateLimiter(): what it leaves in rateLimiter, and whether the
\* liveness probe was sent.  RedisService.healthCheck() is called without
\* await: it sends PING and hands back a Promise, which is truthy, so the
\* "if (!healthy)" branch is not taken and the service is constructed.
InitializeRateLimiter ==
    IF rateLimiter = <<>> /\ config.enabled
    THEN [rateLimiter |-> <<NewService(TRUE)>>, ping |-> TRUE]
    ELSE [rateLimiter |-> rateLimiter, ping |-> FALSE]

\* RedisService.healthCheck() up to its await: PING is sent.
HealthCheck ==
    [IdleTask EXCEPT !.op = "healthCheck", !.pc = "ping", !.ev = "sent",
                     !.calls = {"ping"},
                     !.call = [NoCall EXCEPT !.kind = "ping"]]

\* "await next()" is reached: the downstream handler is invoked.
CallNext(t, pc) ==
    [t EXCEPT !.pc = pc, !.ev = "none", !.call = NoCall, !.reply = <<>>,
              !.nextCalls = @ + 1]

\* The notification of lines 97-107 and 127-134: ctx.callbackQuery (cb) is
\* read, and "await ctx.answerCallbackQuery(..)" or "await ctx.reply(..)" is
\* reached with the message what.
Notify(t, cb, what, pc) ==
    [t EXCEPT !.pc = pc, !.ev = "none", !.call = NoCall, !.reply = <<>>,
              !.cb = cb,
              !.sent = Append(@, [via |-> IF cb THEN "answerCallbackQuery" ELSE "reply",
                                  what |-> what])]

\* Mutant of Guarded: the request without a chat id is not let through.
Guarded_NoChatCheck(t, limiter) ==
    IF limiter = <<>>
    THEN CallNext(t, "next0")
    ELSE CheckTokenBucket(t, limiter[1], PerChatKey(t.chatId), PerChatConfig, 1,
                          "chat")

\* Lines 60-76: without a limiter or without a chat id the request goes to
\* next; otherwise the per-chat check is made.
Guarded(t, limiter) ==
    IF limiter = <<>> \/ t.chatId = 0
    THEN CallNext(t, "next0")
    ELSE CheckTokenBucket(t, limiter[1], PerChatKey(t.chatId), PerChatConfig, 1,
                          "chat")

\* rateLimit(ctx, next) up to its first await (lines 50-76).  Of the request
\* ctx.chat?.id is read here; ctx.callbackQuery is drawn where the code
\* first reads it.
Begin(t, chatId) ==
    /\ Finished(t)
    /\ requests < MaxRequests
    /\ requests' = requests + 1
    /\ LET t0 == [IdleTask EXCEPT !.op = "rateLimit", !.chatId = chatId]
           init == InitializeRateLimiter
           t1 == [t0 EXCEPT !.calls = IF init.ping THEN {"ping"} ELSE {}]
       IN IF ~config.enabled
          THEN /\ task' = [task EXCEPT ![t] = CallNext(t0, "next0")]
               /\ UNCHANGED rateLimiter
          ELSE /\ rateLimiter' = init.rateLimiter
               /\ task' = [task EXCEPT ![t] = Guarded(t1, init.rateLimiter),
                                       !["hc"] = IF init.ping THEN HealthCheck ELSE @]
    /\ UNCHANGED <<clock, store, config, service, bucket, epoch, hist>>

\* Mutant of Decide: only the per-chat result is looked at.
Decide_ChatOnly(t, perChatResult, globalResult, cb) ==
    LET t2 == [t EXCEPT !.perChat = <<perChatResult>>, !.global = <<globalResult>>]
        t3 == [t2 EXCEPT !.denied = TRUE, !.whichLimit = "chat",
                         !.retryAfter = perChatResult.retryAfter]
    IN IF ~perChatResult.allowed
       THEN IF config.onLimit = "reject"
            THEN Notify(t3, cb, "rateLimit", "notify")
            ELSE IF config.onLimit = "delay"
            THEN [t3 EXCEPT !.pc = "delay", !.ev = "none", !.call = NoCall,
                            !.reply = <<>>,
                            !.wake = clock + Min(Or(perChatResult.retryAfter, 1000),
                                                 config.queueTimeout)]
            ELSE CallNext(t3, "next")
       ELSE CallNext(t2, "next")

\* Mutant of Decide: the results are not attached to the context.
Decide_NoAttach(t, perChatResult, globalResult, cb) ==
    LET whichLimit == IF ~perChatResult.allowed THEN "chat" ELSE "global"
        retryAfter == Or(perChatResult.retryAfter, globalResult.retryAfter)
        t3 == [t EXCEPT !.denied = TRUE, !.whichLimit = whichLimit,
                        !.retryAfter = retryAfter]
    IN IF ~perChatResult.allowed \/ ~globalResult.allowed
       THEN IF config.onLimit = "reject"
            THEN Notify(t3, cb, "rateLimit", "notify")
            ELSE IF config.onLimit = "delay"
            THEN [t3 EXCEPT !.pc = "delay", !.ev = "none", !.call = NoCall,
                            !.reply = <<>>,
                            !.wake = clock + Min(Or(retryAfter, 1000),
                                                 config.queueTimeout)]
            ELSE CallNext(t3, "next")
       ELSE CallNext(t, "next")

\* Lines 84-118, once both results are known: they are attached to the
\* context, then the decision is taken.
Decide(t, perChatResult, globalResult, cb) ==
    LET t2 == [t EXCEPT !.perChat = <<perChatResult>>, !.global = <<globalResult>>]
        whichLimit == IF ~perChatResult.allowed THEN "chat" ELSE "global"
        retryAfter == Or(perChatResult.retryAfter, globalResult.retryAfter)
        t3 == [t2 EXCEPT !.denied = TRUE, !.whichLimit = whichLimit,
                         !.retryAfter = retryAfter]
    IN IF ~perChatResult.allowed \/ ~globalResult.allowed
       THEN IF config.onLimit = "reject"
            THEN Notify(t3, cb, "rateLimit", "notify")
            ELSE IF config.onLimit = "delay"
            THEN [t3 EXCEPT !.pc = "delay", !.ev = "none", !.call = NoCall,
                            !.reply = <<>>,
                            !.wake = clock + Min(Or(retryAfter, 1000),
                                                 config.queueTimeout)]
            ELSE CallNext(t3, "next")
       ELSE CallNext(t2, "next")

\* A result as the middleware keeps it.  The middleware never reads reset,
\* which is left out of the kept copy.
Kept(result) == [allowed |-> result.allowed, remaining |-> result.remaining,
                 retryAfter |-> result.retryAfter]

\* Mutant of Continue: the global check is skipped when per-chat denied.
Continue_ShortCircuit(t) ==
    /\ task[t].pc \in {"chat", "global"}
    /\ task[t].ev \in {"replied", "failed", "skipped"}
    /\ LET me == [task[t] EXCEPT !.errs = IF task[t].ev = "failed"
                                            THEN @ \cup {task[t].pc} ELSE @]
       IN IF me.pc = "chat" /\ Returned(me).allowed
          THEN task' = [task EXCEPT ![t] =
                  CheckTokenBucket([me EXCEPT !.perChat = <<Kept(Returned(me))>>],
                                   rateLimiter[1], GlobalKey(BotId), GlobalConfig, 1,
                                   "global")]
          ELSE IF me.pc = "chat"
          THEN \E after \in {Decide(me, Kept(Returned(me)),
                                    Kept(FailOpen(GlobalConfig, clock)), cb) :
                                 cb \in BOOLEAN} :
                  task' = [task EXCEPT ![t] = after]
          ELSE \E after \in {Decide(me, me.perChat[1], Kept(Returned(me)), cb) :
                                 cb \in BOOLEAN} :
                  task' = [task EXCEPT ![t] = after]
    /\ UNCHANGED <<clock, store, config, rateLimiter, service, bucket, requests, epoch, hist>>

\* The awaited check of the middleware returns: after the per-chat check the
\* global check is made (lines 78-80), after the global check the results
\* are attached and the decision is taken, for either ctx.callbackQuery.
Continue(t) ==
    /\ task[t].pc \in {"chat", "global"}
    /\ task[t].ev \in {"replied", "failed", "skipped"}
    /\ LET me == [task[t] EXCEPT !.errs = IF task[t].ev = "failed"
                                            THEN @ \cup {task[t].pc} ELSE @]
       IN IF me.pc = "chat"
          THEN task' = [task EXCEPT ![t] =
                  CheckTokenBucket([me EXCEPT !.perChat = <<Kept(Returned(me))>>],
                                   rateLimiter[1], GlobalKey(BotId), GlobalConfig, 1,
                                   "global")]
          ELSE \E after \in {Decide(me, me.perChat[1], Kept(Returned(me)), cb) :
                                 cb \in BOOLEAN} :
                  task' = [task EXCEPT ![t] = after]
    /\ UNCHANGED <<clock, store, config, rateLimiter, service, bucket, requests, epoch, hist>>

\* The timer of the delay fires.
DelayDone(t) ==
    /\ task[t].pc = "delay"
    /\ clock >= task[t].wake
    /\ task' = [task EXCEPT ![t] = CallNext([task[t] EXCEPT !.wake = 0], "next")]
    /\ UNCHANGED <<clock, store, config, rateLimiter, service, bucket, requests, epoch, hist>>

\* The catch block of the middleware (lines 119-136).
Catch(t, cb) ==
    IF config.onRedisError = "allow"
    THEN CallNext(t, "nextC")
    ELSE Notify(t, cb, "unavailable", "notifyC")

\* The downstream handler returns; rateLimit returns.
NextOk(t) ==
    /\ task[t].pc \in {"next0", "next", "nextC"}
    /\ task' = [task EXCEPT ![t] = IdleTask]
    /\ UNCHANGED <<clock, store, config, rateLimiter, service, bucket, requests, epoch, hist>>

\* The downstream handler throws: inside the try block the catch block
\* runs, elsewhere the error leaves rateLimit.
NextThrows(t) ==
    /\ task[t].pc \in {"next0", "next", "nextC"}
    /\ \E after \in {IF task[t].pc = "next" THEN Catch(task[t], cb) ELSE IdleTask :
                          cb \in BOOLEAN} :
          task' = [task EXCEPT ![t] = after]
    /\ UNCHANGED <<clock, store, config, rateLimiter, service, bucket, requests, epoch, hist>>

\* The notification is delivered; rateLimit returns.
NotifyOk(t) ==
    /\ task[t].pc \in {"notify", "notifyC"}
    /\ task' = [task EXCEPT ![t] = IdleTask]
    /\ UNCHANGED <<clock, store, config, rateLimiter, service, bucket, requests, epoch, hist>>

\* The notification call throws; the catch block reads the same
\* ctx.callbackQuery again.
NotifyThrows(t) ==
    /\ task[t].pc \in {"notify", "notifyC"}
    /\ task' = [task EXCEPT ![t] =
                   IF task[t].pc = "notify" THEN Catch(task[t], task[t].cb)
                   ELSE IdleTask]
    /\ UNCHANGED <<clock, store, config, rateLimiter, service, bucket, requests, epoch, hist>>

\* service.checkPerChatLimit(12345, tokens) or
\* service.checkGlobalLimit(BotId, tokens), called directly.
DirectCheck(t, scope, tokens) ==
    /\ Finished(t)
    /\ requests < MaxRequests
    /\ requests' = requests + 1
    /\ task' = [task EXCEPT ![t] =
          CheckTokenBucket([IdleTask EXCEPT !.op = "check"], service,
                           IF scope = "chat" THEN PerChatKey(12345) ELSE GlobalKey(BotId),
                           IF scope = "chat" THEN PerChatConfig ELSE GlobalConfig,
                           tokens, "call")]
    /\ UNCHANGED <<clock, store, config, rateLimiter, service, bucket, epoch, hist>>

\* service.getStats(key) or service.reset(key), called directly.
DirectCall(t, kind, key) ==
    /\ Finished(t)
    /\ requests < MaxRequests
    /\ requests' = requests + 1
    /\ task' = [task EXCEPT ![t] =
                   ServiceCall([IdleTask EXCEPT !.op = kind], service, kind, key)]
    /\ UNCHANGED <<clock, store, config, rateLimiter, service, bucket, epoch, hist>>

\* PING of task t is answered.
StorePing(t) ==
    /\ task[t].ev = "sent"
    /\ task[t].call.kind = "ping"
    /\ task' = [task EXCEPT ![t].ev = "replied", ![t].reply = <<>>]
    /\ UNCHANGED <<clock, store, config, rateLimiter, service, bucket, requests, epoch, hist>>

\* The awaited PING of healthCheck has ended: healthCheck resolves, to true
\* after a reply (ev = "replied") and to false after an error.  Nothing
\* awaits its promise.
HealthCheckReturn(t) ==
    /\ task[t].pc = "ping"
    /\ task[t].ev \in {"replied", "failed"}
    /\ task' = [task EXCEPT ![t].pc = "done"]
    /\ UNCHANGED <<clock, store, config, rateLimiter, service, bucket, requests, epoch, hist>>

\* getRateLimitStats(chatId) up to its first await: without a limiter it
\* returns {enabled: false}; with one it asks for the chat's key when chatId
\* is truthy, else for "rate:global:default" at once.
StatsBegin(t, chatId) ==
    /\ Finished(t)
    /\ requests < MaxRequests
    /\ requests' = requests + 1
    /\ LET t0 == [IdleTask EXCEPT !.op = "stats", !.chatId = chatId]
       IN task' = [task EXCEPT ![t] =
             IF rateLimiter = <<>>
             THEN [t0 EXCEPT !.pc = "statsDone", !.stats = <<[enabled |-> FALSE]>>]
             ELSE IF chatId # 0
             THEN [ServiceCall(t0, rateLimiter[1], "hmget", PerChatKey(chatId))
                      EXCEPT !.pc = "statsChat"]
             ELSE [ServiceCall(t0, rateLimiter[1], "hmget", GlobalKey(""))
                      EXCEPT !.pc = "statsGlobal"]]
    /\ UNCHANGED <<clock, store, config, rateLimiter, service, bucket, epoch, hist>>

\* An awaited getStats of getRateLimitStats returns: after the chat's stats
\* the global ones are asked for; after those {enabled: true, chat, global}
\* is ready.  getStats never throws, so the catch block is not entered.
StatsContinue(t) ==
    /\ task[t].pc \in {"statsChat", "statsGlobal"}
    /\ task[t].ev \in {"replied", "failed", "skipped"}
    /\ LET me == [task[t] EXCEPT !.errs = IF task[t].ev = "failed"
                                            THEN @ \cup {task[t].pc} ELSE @]
       IN task' = [task EXCEPT ![t] =
             IF me.pc = "statsChat"
             THEN [ServiceCall([me EXCEPT !.perChat = <<GetStats(me)>>],
                               rateLimiter[1], "hmget", GlobalKey(""))
                      EXCEPT !.pc = "statsGlobal"]
             ELSE [me EXCEPT !.pc = "statsDone", !.ev = "none", !.call = NoCall,
                             !.reply = <<>>,
                             !.global = <<GetStats(me)>>,
                             !.stats = <<[enabled |-> TRUE]>>]]
    /\ UNCHANGED <<clock, store, config, rateLimiter, service, bucket, requests, epoch, hist>>

\* getRateLimitStats returns.
StatsReturn(t) ==
    /\ task[t].pc = "statsDone"
    /\ task' = [task EXCEPT ![t] = IdleTask]
    /\ UNCHANGED <<clock, store, config, rateLimiter, service, bucket, requests, epoch, hist>>

Init ==
    /\ clock = 0
    /\ store = [k \in Keys |-> NoRec]
    /\ config \in [enabled : BOOLEAN, onLimit : {"reject", "delay", "queue"},
                    onRedisError : {"allow", "reject"}, queueTimeout : {5000}]
    /\ rateLimiter = <<>>
    /\ service = NewService(config.enabled)
    /\ bucket = PerChatConfig
    /\ task = [t \in AllTasks |-> IdleTask]
    /\ requests = 0
    /\ epoch = [k \in Observed |-> NoEpoch]
    /\ hist = [k \in Observed |-> <<>>]

Next ==
    \/ \E chatId \in ChatIds : Begin("t1", chatId)
    \/ DirectCheck("t2", "chat", PerChatConfig.capacity - 1)
    \/ DirectCheck("t2", "global", GlobalConfig.capacity)
    \/ \E kind \in {"hmget", "del"} : DirectCall("t2", kind, PerChatKey(12345))
    \/ \E t \in Tasks : StoreEval(t)
    \/ \E t \in Tasks : StoreRead(t)
    \/ \E t \in Tasks : StoreDel(t)
    \/ \E t \in Tasks : StoreError(t)
    \/ \E t \in Tasks : ReplyLost(t)
    \/ \E t \in Tasks : Continue(t)
    \/ \E t \in Tasks : Return(t)
    \/ \E t \in Tasks : DelayDone(t)
    \/ \E t \in Tasks : NextOk(t)
    \/ \E t \in Tasks : NextThrows(t)
    \/ \E t \in Tasks : NotifyOk(t)
    \/ \E t \in Tasks : NotifyThrows(t)
    \/ Tick

\* The bot process: task t1 is the update loop, handling one inbound
\* request after the other through the middleware; task t2 makes direct
\* calls of a RateLimitService, constructed with the enabled flag of the
\* configuration, concurrently against the shared store.
Spec == Init /\ [][Next]_vars

\* The bot process with its liveness probe followed to the end and with a
\* monitoring task t2 that calls getRateLimitStats beside the update loop.
NextMonitor ==
    \/ \E chatId \in ChatIds : Begin("t1", chatId)
    \/ \E chatId \in ChatIds : StatsBegin("t2", chatId)
    \/ \E t \in AllTasks : StoreEval(t)
    \/ \E t \in AllTasks : StoreRead(t)
    \/ \E t \in AllTasks : StorePing(t)
    \/ \E t \in AllTasks : StoreError(t)
    \/ \E t \in AllTasks : ReplyLost(t)
    \/ \E t \in AllTasks : HealthCheckReturn(t)
    \/ \E t \in Tasks : Continue(t)
    \/ \E t \in Tasks : StatsContinue(t)
    \/ \E t \in Tasks : StatsReturn(t)
    \/ \E t \in Tasks : NextOk(t)
    \/ \E t \in Tasks : NextThrows(t)
    \/ \E t \in Tasks : NotifyOk(t)
    \/ \E t \in Tasks : NotifyThrows(t)
    \/ Tick

MonitorSpec == Init /\ [][NextMonitor]_vars

\* A RateLimitService used on its own by two callers: each call is a direct
\* checkPerChatLimit(12345, n), checkGlobalLimit(BotId, n), getStats(key) or
\* reset(key), with n one token or the whole capacity.
InitService ==
    /\ clock = 0
    /\ store = [k \in Keys |-> NoRec]
    /\ config = DefaultConfig
    /\ rateLimiter = <<>>
    /\ service \in {NewService(enabled) : enabled \in BOOLEAN}
    /\ bucket = PerChatConfig
    /\ task = [t \in AllTasks |-> IdleTask]
    /\ requests = 0
    /\ epoch = [k \in Observed |-> NoEpoch]
    /\ hist = [k \in Observed |-> <<>>]

NextService ==
    \/ \E t \in Tasks, n \in {1, PerChatConfig.capacity} : DirectCheck(t, "chat", n)
    \/ \E t \in Tasks, n \in {1, GlobalConfig.capacity} : DirectCheck(t, "global", n)
    \/ \E t \in Tasks, kind \in {"hmget", "del"},
          key \in {PerChatKey(12345), GlobalKey(BotId)} : DirectCall(t, kind, key)
    \/ \E t \in Tasks : StoreEval(t)
    \/ \E t \in Tasks : StoreRead(t)
    \/ \E t \in Tasks : StoreDel(t)
    \/ \E t \in Tasks : StoreError(t)
    \/ \E t \in Tasks : ReplyLost(t)
    \/ \E t \in Tasks : Return(t)
    \/ Tick

ServiceSpec == InitService /\ [][NextService]_vars

\* The engine alone: concurrent direct consumes of one bucket, for every
\* configuration of EngineConfigs, against a store that answers.
\* ------------------------------------------------------- outbound calls
\* The methods that createRateLimitTransformer looks for.
SendMethods == {"sendMessage", "editMessageText", "editMessageCaption"}

\* The function returned by createRateLimitTransformer, called by task t
\* with an object whose properties method and chat_id are as given ("" and 0
\* for undefined), up to its first await or its "return next()".
RateLimitTransformer(t, limiter, method, chatId) ==
    IF ~config.enabled \/ limiter = <<>>
    THEN [t EXCEPT !.pc = "passed"]
    ELSE IF method # "" /\ method \in SendMethods /\ chatId # 0
    THEN CheckTokenBucket(t, limiter[1], PerChatKey(chatId), PerChatConfig, 1,
                          "outCheck")
    ELSE [t EXCEPT !.pc = "passed"]

\* createBot installs that function with bot.use (bot.ts:22), so it is
\* called as a middleware, once for an inbound update, with the context
\* object as its first argument: a context has no property method and no
\* property chat_id.
UseTransformer(t) ==
    /\ Finished(t)
    /\ config.enabled
    /\ requests < MaxRequests
    /\ requests' = requests + 1
    /\ task' = [task EXCEPT ![t] =
                   RateLimitTransformer([IdleTask EXCEPT !.op = "transformer"],
                                        rateLimiter, "", 0)]
    /\ UNCHANGED <<clock, store, config, rateLimiter, service, bucket, epoch, hist>>

\* A handler makes an outbound API call (ctx.reply and the like).  No
\* transformer is installed on bot.api, so the call goes to the transport
\* as it is.
ApiCall(t, method, chatId) ==
    /\ Finished(t)
    /\ requests < MaxRequests
    /\ requests' = requests + 1
    /\ task' = [task EXCEPT ![t] =
                   [IdleTask EXCEPT !.op = "api", !.pc = "transport",
                                    !.method = method, !.chatId = chatId]]
    /\ UNCHANGED <<clock, store, config, rateLimiter, service, bucket, epoch, hist>>

\* The transport answers, or the middleware's next() returns.
ApiReturn(t) ==
    /\ task[t].pc \in {"transport", "passed"}
    /\ task' = [task EXCEPT ![t] = IdleTask]
    /\ UNCHANGED <<clock, store, config, rateLimiter, service, bucket, requests, epoch, hist>>

\* The bot process with its update loop t1 and, as t2, what runs downstream
\* of rateLimit: the middleware installed from createRateLimitTransformer
\* and the handlers' outbound API calls.
NextOutbound ==
    \/ \E chatId \in ChatIds : Begin("t1", chatId)
    \/ UseTransformer("t2")
    \/ \E method \in {"sendMessage", "getMe"}, chatId \in ChatIds :
          ApiCall("t2", method, chatId)
    \/ ApiReturn("t2")
    \/ StoreEval("t1")
    \/ Continue("t1")
    \/ NextOk("t1")
    \/ Tick

OutboundSpec == Init /\ [][NextOutbound]_vars

\* The start of the bot process, within one instant: two inbound requests
\* at a time, t1 and t2 both running rateLimit; the first of them starts the
\* lazy initialization and its liveness probe, which may fail.
NextStartup ==
    \/ \E t \in Tasks, chatId \in ChatIds : Begin(t, chatId)
    \/ \E t \in Tasks : StoreEval(t)
    \/ StorePing("hc")
    \/ StoreError("hc")
    \/ HealthCheckReturn("hc")
    \/ \E t \in Tasks : Continue(t)
    \/ \E t \in Tasks : NextOk(t)

StartupSpec == Init /\ [][NextStartup]_vars

\* The bot process with its update loop t1 and with direct calls of t2:
\* checkPerChatLimit(12345, 19), which brings the chat's bucket to its last
\* token, and checkGlobalLimit(BotId, 30), which empties the global bucket;
\* a store call may fail, the downstream handler and the notifications do
\* not.
NextGate ==
    \/ \E chatId \in ChatIds : Begin("t1", chatId)
    \/ DirectCheck("t2", "chat", PerChatConfig.capacity - 1)
    \/ DirectCheck("t2", "global", GlobalConfig.capacity)
    \/ \E t \in Tasks : StoreEval(t)
    \/ \E t \in Tasks : StoreError(t)
    \/ \E t \in Tasks : Continue(t)
    \/ \E t \in Tasks : Return(t)
    \/ \E t \in Tasks : DelayDone(t)
    \/ \E t \in Tasks : NextOk(t)
    \/ \E t \in Tasks : NotifyOk(t)
    \/ Tick

GateSpec == Init /\ [][NextGate]_vars

\* One caller of a RateLimitService makes a burst of calls of the three
\* wrappers, each with the default of one token, against a store without
\* faults.  It works on one key at a time: a call is made on another key
\* only when the store holds no record.
ScopeArgs ==
    {[scope |-> "chat", chatId |-> 12345, botId |-> ""]}
        \cup {[scope |-> sc, chatId |-> 0, botId |-> b] :
                  sc \in {"global", "broadcast"}, b \in {BotId, ""}}

ScopeKey(a) ==
    IF a.scope = "chat" THEN PerChatKey(a.chatId)
    ELSE IF a.scope = "global" THEN GlobalKey(a.botId)
    ELSE BroadcastKey(a.botId)

BurstCall(t, a) ==
    /\ Finished(t)
    /\ requests < MaxBurst
    /\ \A k \in Keys : store[k] # NoRec => k = ScopeKey(a)
    /\ requests' = requests + 1
    /\ task' = [task EXCEPT ![t] =
                   CheckLimit(IdleTask, service, a.scope, a.chatId, a.botId)]
    /\ UNCHANGED <<clock, store, config, rateLimiter, service, bucket, epoch, hist>>

BurstTick ==
    /\ clock < Horizon
    /\ clock' = clock + BurstTickMs
    /\ store' = [k \in Keys |-> IF Expired(store[k], clock') THEN NoRec ELSE store[k]]
    /\ UNCHANGED <<config, rateLimiter, service, bucket, task, requests, epoch, hist>>

\* config.rateLimit.limits as loaded from the environment: the defaults,
\* or RATE_LIMIT_PER_CHAT_MESSAGES=5 in their place.
LimitChoices ==
    {[perChat |-> [messages |-> m, window |-> 60000],
      global |-> [messages |-> 30, window |-> 1000],
      broadcast |-> [messages |-> 15, window |-> 60000]] : m \in {20, 5}}

InitBurst ==
    /\ clock = 0
    /\ store = [k \in Keys |-> NoRec]
    /\ config \in {[limits |-> l] @@ DefaultConfig : l \in LimitChoices}
    /\ rateLimiter = <<>>
    /\ service = NewService(TRUE)
    /\ bucket = PerChatConfig
    /\ task = [t \in AllTasks |-> IdleTask]
    /\ requests = 0
    /\ epoch = [k \in Observed |-> NoEpoch]
    /\ hist = [k \in Observed |-> <<>>]

NextBurst ==
    \/ \E a \in ScopeArgs : BurstCall("t1", a)
    \/ StoreEval("t1")
    \/ Return("t1")
    \/ BurstTick

BurstSpec == InitBurst /\ [][NextBurst]_vars

EngineSpec == InitEngine /\ [][NextEngine]_vars

\* ------------------------------------------------------ claims: the engine
\* The configuration every consume of key k is made with.
ConfigOf(k) ==
    IF k = EngineKey THEN bucket
    ELSE IF k \in {PerChatKey(c) : c \in ChatIds} THEN PerChatConfig
    ELSE IF k \in {BroadcastKey(BotId), BroadcastKey("")} THEN BroadcastConfig
    ELSE GlobalConfig

\* C1: the consumes of a key are indivisible store steps.  Of the one-token
\* consumes run on a bucket with no time elapsing between them, exactly
\* min(their number, the whole tokens the bucket held) are allowed: never
\* more than the bucket held, and of two racing for the last token one wins
\* and one loses.
C1_AtomicConsume ==
    \A k \in Observed :
        epoch[k].on =>
            epoch[k].allowed = Min(epoch[k].total, Max(0, epoch[k].base \div Unit))

\* Two callers raced for the last token: t2 won, t1 lost.
C1_Witness ==
    /\ epoch[EngineKey].on
    /\ epoch[EngineKey].base = Unit
    /\ epoch[EngineKey].total = 2
    /\ task["t1"].ev = "replied" /\ task["t1"].reply[1] = 0
    /\ task["t2"].ev = "replied" /\ task["t2"].reply[1] = 1
    /\ task["t1"].call.now = task["t2"].call.now

\* C2: the stored token count of every bucket record is within
\* 0 .. capacity.
C2_TokensInRange ==
    \A k \in Observed :
        store[k] # NoRec =>
            /\ 0 <= store[k][1].tokens
            /\ store[k][1].tokens <= ConfigOf(k).capacity * Unit

\* C3: starting from an absent bucket, of the one-token consumes made with
\* zero elapsed time the first capacity are allowed and the next is denied.
C3_FreshBurst ==
    \A k \in Observed :
        epoch[k].on /\ epoch[k].fresh =>
            epoch[k].allowed = Min(epoch[k].total, ConfigOf(k).capacity)

\* A fresh bucket has served capacity consumes and denied the next one.
C3_Witness ==
    /\ epoch[EngineKey].on /\ epoch[EngineKey].fresh
    /\ epoch[EngineKey].total = bucket.capacity + 1
    /\ epoch[EngineKey].allowed = bucket.capacity
    /\ bucket.capacity = MaxCap

\* The denial d of key k was followed, with no consume in between, by the
\* same request x.
Repeated(k, d, x) ==
    /\ Len(hist[k]) = 2
    /\ d = hist[k][1] /\ x = hist[k][2]
    /\ ~d.allowed
    /\ x.tokens = d.tokens

\* C4 as stated: a request denied with retryAfter = T and repeated at least T
\* later, no other consume in between, is allowed.
C4_RetryAdmits_Stated ==
    \A k \in Observed : \A d, x \in {hist[k][i] : i \in 1..Len(hist[k])} :
        Repeated(k, d, x) /\ x.now >= d.now + d.retryAfter => x.allowed

\* C4 amended: the same, for a request of at most capacity tokens.
C4_RetryAdmits ==
    \A k \in Observed : \A d, x \in {hist[k][i] : i \in 1..Len(hist[k])} :
        /\ Repeated(k, d, x)
        /\ x.now >= d.now + d.retryAfter
        /\ d.tokens <= ConfigOf(k).capacity
        => x.allowed

\* A denied request was repeated once its retryAfter had passed, and allowed.
C4_Witness ==
    /\ Len(hist[EngineKey]) = 2
    /\ Repeated(EngineKey, hist[EngineKey][1], hist[EngineKey][2])
    /\ hist[EngineKey][2].now >= hist[EngineKey][1].now + hist[EngineKey][1].retryAfter
    /\ hist[EngineKey][1].tokens <= bucket.capacity
    /\ hist[EngineKey][2].allowed

Decided(t) == task[t].op = "rateLimit" /\ task[t].global # <<>>

\* C6: the request is allowed if and only if the per-chat and the global
\* result both are; an allowed request reaches next; when per-chat allows
\* and global denies, the request is denied with global's retryAfter, and
\* under onLimit = reject it does not reach next.
C6_Aggregation ==
    \A t \in Tasks :
        Decided(t) =>
            LET p == task[t].perChat[1]
                g == task[t].global[1]
            IN /\ task[t].denied = ~(p.allowed /\ g.allowed)
               /\ ~task[t].denied => task[t].nextCalls >= 1
               /\ p.allowed /\ ~g.allowed =>
                      /\ task[t].denied
                      /\ task[t].retryAfter = g.retryAfter
                      /\ task[t].pc = "notify" => task[t].nextCalls = 0

\* Per-chat allowed, global denied, and the request was refused.
C6_Witness ==
    /\ Decided("t1")
    /\ task["t1"].perChat[1].allowed
    /\ ~task["t1"].global[1].allowed
    /\ task["t1"].pc = "notify"
    /\ task["t1"].retryAfter = 1000

\* C7: when both scopes deny, the retryAfter the gate uses is the larger of
\* the two scopes' retryAfter.
C7_MaxRetryAfter ==
    \A t \in Tasks :
        Decided(t) /\ ~task[t].perChat[1].allowed /\ ~task[t].global[1].allowed =>
            task[t].retryAfter = Max(task[t].perChat[1].retryAfter,
                                     task[t].global[1].retryAfter)

\* C8: with the feature flag off no store call is issued and every request
\* is allowed: an inbound request goes straight to next; a service
\* constructed with enabled = false sends nothing for a check, a getStats
\* or a reset, and its check returns allowed with remaining = capacity; the
\* store stays empty.
C8_DisabledMode ==
    /\ ~config.enabled =>
          /\ \A k \in Keys : store[k] = NoRec
          /\ rateLimiter = <<>>
          /\ \A t \in Tasks : task[t].op = "rateLimit" =>
                 /\ task[t].calls = {}
                 /\ task[t].pc = "next0" /\ task[t].nextCalls = 1
    /\ ~service.enabled =>
          \A t \in Tasks : task[t].op \in {"check", "hmget", "del"} =>
              /\ task[t].calls = {} /\ task[t].ev = "skipped"
              /\ task[t].op = "check" =>
                    /\ Returned(task[t]).allowed
                    /\ Returned(task[t]).remaining = task[t].call.capacity
                    /\ Returned(task[t]).retryAfter = undefined

\* The flag is off: a request with a chat id is at next while a check of
\* the disabled service returns.
C8_Witness ==
    /\ ~config.enabled /\ ~service.enabled
    /\ task["t1"].op = "rateLimit" /\ task["t1"].chatId # 0
    /\ task["t1"].nextCalls = 1
    /\ task["t2"].op = "check" /\ task["t2"].ev = "skipped"

\* A step of task t as an inbound request without a chat id.
ChatlessStep(t) ==
    /\ task'[t] # task[t]
    /\ \/ task'[t].op = "rateLimit" /\ task'[t].chatId = 0
       \/ task[t].op = "rateLimit" /\ task[t].chatId = 0

\* C9 as stated: a request without a chat id goes to next and no store call
\* of any kind is made on its behalf, whatever the limiter's state.
C9_NoStoreAccess_Stated ==
    \A t \in Tasks :
        task[t].op = "rateLimit" /\ task[t].chatId = 0 =>
            task[t].nextCalls = 1 /\ task[t].calls = {}

\* C9 amended: a request without a chat id goes to next; its steps leave
\* every bucket record unchanged and send no EVAL; the one store call they
\* can send is the PING of the lazy initialization, and only when the
\* request is the one that initializes the limiter.
C9_NoBucketAccess ==
    [][\A t \in Tasks :
          ChatlessStep(t) =>
              /\ store' = store
              /\ task'[t].op = "rateLimit" =>
                    /\ task'[t].pc = "next0" /\ task'[t].nextCalls = 1
                    /\ task'[t].perChat = <<>> /\ task'[t].global = <<>>
                    /\ task'[t].calls \subseteq {"ping"}
                    /\ "ping" \in task'[t].calls =>
                          rateLimiter = <<>> /\ rateLimiter' # <<>>]_vars

\* A request without a chat id is at next, nothing sent on its behalf,
\* while the limiter is active and the chat's bucket exists.
C9_Witness ==
    /\ task["t1"].op = "rateLimit" /\ task["t1"].chatId = 0
    /\ task["t1"].pc = "next0" /\ task["t1"].calls = {}
    /\ rateLimiter # <<>>
    /\ store[PerChatKey(12345)] # NoRec

\* The fallback result of a scope.
IsFailOpen(result, cfg) ==
    /\ result.allowed
    /\ result.remaining = cfg.capacity
    /\ result.retryAfter = undefined

Indications(t) == {task[t].sent[i].what : i \in 1..Len(task[t].sent)}

\* C11: when a consume of the request raised and onRedisError = reject, the
\* request is refused: next is not invoked, and no rate-limit message is
\* sent in place of the "service temporarily unavailable" indication.
C11_FailClosed ==
    \A t \in Tasks :
        Decided(t) /\ task[t].errs # {} /\ config.onRedisError = "reject" =>
            /\ task[t].nextCalls = 0
            /\ "rateLimit" \notin Indications(t)

\* C12: "service temporarily unavailable" is sent only for a request one of
\* whose store operations failed under onRedisError = reject, "rate limit
\* exceeded" only for a request a scope denied, and no request gets both.
C12_NeverConfused ==
    \A t \in Tasks :
        task[t].op = "rateLimit" =>
            /\ "unavailable" \in Indications(t) =>
                   task[t].errs # {} /\ config.onRedisError = "reject"
            /\ "rateLimit" \in Indications(t) => task[t].denied
            /\ Indications(t) # {"rateLimit", "unavailable"}

\* C13: with onLimit = reject a request that a scope denied never reaches
\* next, and exactly one notification is sent for it.
C13_RejectNotifiesOnce ==
    \A t \in Tasks :
        Decided(t) /\ task[t].denied /\ config.onLimit = "reject" =>
            /\ task[t].nextCalls = 0
            /\ Len(task[t].sent) = 1

\* C14: with onLimit = delay a denied request waits for
\* min(retryAfter, queueTimeout), never longer than queueTimeout, and next
\* is then invoked exactly once.
C14_DelayThenNextOnce ==
    \A t \in Tasks :
        Decided(t) /\ task[t].denied /\ config.onLimit = "delay" =>
            /\ task[t].pc = "delay" =>
                   /\ task[t].nextCalls = 0
                   /\ task[t].wake <= clock + Min(task[t].retryAfter,
                                                  config.queueTimeout)
                   /\ task[t].wake <= clock + config.queueTimeout
            /\ task[t].pc # "delay" => task[t].nextCalls = 1

\* C15: with onLimit = queue a denied request is refused or delayed; it is
\* never handed to next at once.
C15_QueueFallsBack ==
    \A t \in Tasks :
        Decided(t) /\ task[t].denied /\ config.onLimit = "queue" =>
            task[t].pc \in {"notify", "delay"} /\ task[t].nextCalls = 0

\* ---------------------------------------- claims: the service's other calls
\* Task t's store call of the given kind on key k is run by the store in
\* this step.
Runs(t, kind, k) ==
    /\ task[t].ev = "sent" /\ task'[t].ev = "replied"
    /\ task[t].call.kind = kind /\ task[t].call.key = k

\* C18 as stated, for the first call of a run: the service call that failed
\* returns normally, and the store is as it was before the call: empty.
C18_NoFaultNoChange_Stated ==
    \A t \in Tasks :
        task[t].pc = "call" /\ task[t].ev = "failed" =>
            /\ ~ServiceReturn(task[t]).thrown
            /\ requests = 1 => \A k \in Keys : store[k] = NoRec

\* C18 amended: whatever the outcome of the store call, checkTokenBucket,
\* getStats and reset return normally; on an error checkTokenBucket returns
\* the fallback result, getStats zeros and reset nothing; and a store call
\* that fails before the store has run it changes no bucket record.
C18_NoFaultPropagated ==
    [][\A t \in Tasks :
          /\ task[t].ev = "sent" /\ task'[t].ev = "failed" => store' = store
          /\ task[t].pc = "call" =>
                /\ ~ServiceReturn(task[t]).thrown
                /\ task[t].ev = "failed" =>
                      /\ task[t].op = "check" =>
                            IsFailOpen(ServiceReturn(task[t]).value[1],
                                       [capacity |-> task[t].call.capacity])
                      /\ task[t].op = "hmget" =>
                            ServiceReturn(task[t]).value
                                = <<[tokens |-> 0, lastRefill |-> 0]>>
                      /\ task[t].op = "del" =>
                            ServiceReturn(task[t]).value = <<>>]_vars

\* A getStats whose HMGET failed is about to return while the bucket it
\* asked for exists.
C18_Witness ==
    /\ task["t2"].op = "hmget" /\ task["t2"].pc = "call"
    /\ task["t2"].ev = "failed"
    /\ store[task["t2"].call.key] # NoRec

\* C20: DEL removes the record; a consume of n <= capacity tokens that finds
\* no record is allowed and leaves tokens = capacity - n, lastRefill = now,
\* as on a never-used key; a record appears and changes only in a consume,
\* and disappears only in a reset or when its expiry time has come.
C20_ResetDeletes ==
    [][\A k \in Keys :
          /\ \A t \in Tasks : Runs(t, "del", k) => store'[k] = NoRec
          /\ \A t \in Tasks :
                 Runs(t, "eval", k) /\ store[k] = NoRec
                 /\ task[t].call.tokens <= task[t].call.capacity =>
                     /\ task'[t].reply[1] = 1
                     /\ store'[k] # NoRec
                     /\ store'[k][1].tokens
                          = (task[t].call.capacity - task[t].call.tokens) * Unit
                     /\ store'[k][1].lastRefill = task[t].call.now
          /\ store'[k] # store[k] =>
                 IF store'[k] # NoRec
                 THEN \E t \in Tasks : Runs(t, "eval", k)
                 ELSE \/ \E t \in Tasks : Runs(t, "del", k)
                      \/ clock' # clock /\ Expired(store[k], clock')]_vars

\* The chat's bucket was used up by t1, reset by t2 and consumed from again
\* by t1, all at time 0: the last consume, of one token, was allowed and
\* left capacity - 1 tokens.
C20_Witness ==
    /\ clock = 0 /\ requests = MaxRequests
    /\ task["t2"].op = "del" /\ task["t2"].ev = "replied"
    /\ task["t2"].call.key = PerChatKey(12345)
    /\ task["t1"].op = "check" /\ task["t1"].ev = "replied"
    /\ task["t1"].call.key = PerChatKey(12345) /\ task["t1"].call.tokens = 1
    /\ task["t1"].reply[1] = 1
    /\ store[PerChatKey(12345)] # NoRec
    /\ store[PerChatKey(12345)][1].tokens = (PerChatConfig.capacity - 1) * Unit
    /\ store[PerChatKey(12345)][1].lastRefill = task["t1"].call.now

\* ------------------------------------ claims: initialization and monitoring
\* The liveness probe of the lazy initialization has ended with an error.
ProbeFailed == task["hc"].pc = "done" /\ task["hc"].ev = "failed"

\* C16: when the liveness probe of the lazy initialization fails, the
\* limiter is Disabled: no RateLimitService exists and no consume is sent
\* for a request.
C16_ProbeFailureDisables ==
    ProbeFailed =>
        /\ rateLimiter = <<>>
        /\ \A t \in Tasks : task[t].op = "rateLimit" => "eval" \notin task[t].calls

\* C17: when the store cannot be reached during the lazy initialization,
\* then with onRedisError = allow the limiter is Disabled, and with
\* onRedisError = reject the initialization raises an error: no limiter is
\* created and the request that started it does not go on to next.
C17_InitPolicy ==
    ProbeFailed =>
        /\ rateLimiter = <<>>
        /\ config.onRedisError = "reject" =>
               \A t \in Tasks : task[t].op = "rateLimit" => task[t].nextCalls = 0

\* C19: a finished statistics query reports enabled = true only when no
\* read of it failed, and then with the token count and the last-refill
\* time its read found; with the limiter off it reports enabled = false.
C19_StatsMarker ==
    \A t \in Tasks :
        task[t].op = "stats" /\ task[t].pc = "statsDone" =>
            /\ rateLimiter = <<>> => ~task[t].stats[1].enabled
            /\ task[t].stats[1].enabled => task[t].errs = {}

BurstOfChat ==
    \A t \in Tasks :
        /\ task[t].pc = "call" /\ task[t].ev = "replied"
        /\ task[t].scope = "chat" /\ NowSeconds(clock) = 0
        => /\ requests <= PerChatConfig.capacity =>
                 /\ task[t].reply = <<1, requests>>
                 /\ Returned(task[t]).allowed
                 /\ Returned(task[t]).remaining = requests
           /\ requests = PerChatConfig.capacity + 1 =>
                 /\ task[t].reply = <<0, 0, 3>>
                 /\ ~Returned(task[t]).allowed
                 /\ Returned(task[t]).remaining = 0
                 /\ Returned(task[t]).retryAfter = 3000

C22_RefillNeverLowers ==
    [][\A t \in Tasks, k \in Keys :
          Runs(t, "eval", k) /\ store[k] # NoRec =>
              store'[k][1].tokens
                  >= store[k][1].tokens
                       - (IF task'[t].reply[1] = 1 THEN task[t].call.tokens * Unit
                          ELSE 0)]_vars

\* ------------------------------------------------ claims: scopes and keys
\* The key and the capacity that the call of task t is to use.
KeyOfScope(t) ==
    IF t.scope = "chat" THEN "rate:chat:" \o ToString(t.chatId)
    ELSE IF t.scope = "global"
    THEN (IF t.botId = "" THEN "rate:global:default" ELSE "rate:global:" \o t.botId)
    ELSE (IF t.botId = "" THEN "rate:broadcast:default"
          ELSE "rate:broadcast:" \o t.botId)

CapacityOfScope(t) ==
    IF t.scope = "chat" THEN 20 ELSE IF t.scope = "global" THEN 30 ELSE 15

\* A step as the wrappers' calls allow it: the EVAL of a call is run in one
\* step that writes the record of its key and leaves every other key alone;
\* no other step writes a record; and a call that has its reply returns.
ScopeStep ==
    /\ \A t \in Tasks, k \in Keys :
          Runs(t, "eval", k) =>
              /\ store'[k] # NoRec
              /\ \A k2 \in Keys \ {k} : store'[k2] = store[k2]
    /\ \A k \in Keys :
          store'[k] # store[k] /\ store'[k] # NoRec =>
              \E t \in Tasks : Runs(t, "eval", k)
    /\ \A t \in Tasks :
          task[t].op = "check" /\ task[t].ev = "replied" =>
              task'[t] \in {task[t], IdleTask}

\* C23: a call of checkPerChatLimit, checkGlobalLimit or checkBroadcastLimit
\* sends one EVAL for one token on the key of its scope (rate:chat:<chatId>,
\* rate:global:<botId or default>, rate:broadcast:<botId or default>) with
\* the capacity of its scope (20, 30, 15); the store runs it in one step that
\* touches that key alone, and the call returns after it.
C23_ScopeKeys ==
    /\ [](\A t \in Tasks :
             task[t].op = "check" /\ task[t].pc = "call" =>
                 /\ task[t].call.kind = "eval"
                 /\ task[t].call.key = KeyOfScope(task[t])
                 /\ task[t].call.key \in Keys
                 /\ task[t].call.capacity = CapacityOfScope(task[t])
                 /\ task[t].call.tokens = 1
                 /\ task[t].calls = {"eval"})
    /\ [][ScopeStep]_vars

\* A checkGlobalLimit() without a bot id has been run: rate:global:default
\* holds 29 tokens, and no other key has a record.
C23_Witness ==
    /\ task["t1"].scope = "global" /\ task["t1"].botId = ""
    /\ task["t1"].pc = "call" /\ task["t1"].ev = "replied"
    /\ store["rate:global:default"] # NoRec
    /\ store["rate:global:default"][1].tokens = (30 - 1) * Unit
    /\ \A k \in Keys \ {"rate:global:default"} : store[k] = NoRec

\* ---------------------------------------------------- claims: time-to-live
\* C24: every consume leaves the record of its key with the expiry time
\* "store time + ceil(capacity / refillRate) seconds" (kept as the instant
\* after the horizon when later), whether the record existed or not; and
\* every record in the store has an expiry time, which is ahead of the clock
\* and at most that time-to-live away.
C24_TtlRefreshed ==
    /\ [](\A k \in Keys :
             store[k] # NoRec =>
                 /\ clock < store[k][1].expireAt
                 /\ store[k][1].expireAt
                      <= Min(clock + Ceil(ConfigOf(k).capacity * Unit,
                                          ConfigOf(k).refillRate) * 1000,
                             Horizon + 1))
    /\ [][\A t \in Tasks, k \in Keys :
             Runs(t, "eval", k) =>
                 /\ store'[k] # NoRec
                 /\ store'[k][1].expireAt
                      = Min(clock + Ceil(task[t].call.capacity * Unit,
                                         task[t].call.refillRate) * 1000,
                            Horizon + 1)]_vars

\* A bucket of capacity 1 at 40/60 tokens per second (time-to-live 2 s): a
\* consume of second 1, run at 1 s, found the record of second 0 refilled
\* to 40/60 token, was denied, and left the record to expire later than at
\* 2 s, which is where a time-to-live counted from time 0 ends.
C24_Witness ==
    /\ bucket = [capacity |-> 1, refillRate |-> 40]
    /\ clock = TickMs
    /\ epoch[EngineKey].on /\ ~epoch[EngineKey].fresh
    /\ epoch[EngineKey].now = 1 /\ epoch[EngineKey].base = 40
    /\ store[EngineKey] # NoRec
    /\ store[EngineKey][1].tokens = 40
    /\ store[EngineKey][1].lastRefill = 1
    /\ store[EngineKey][1].expireAt > 2000

\* ------------------------------------------------- claims: outbound calls
\* C25: with the limiter active, an outbound call of a message-sending
\* method that carries a chat id has sent a consume (on the key
\* rate:chat:<chatId>, which inbound requests of the chat use) before it
\* reaches the transport.
C25_OutboundShares ==
    \A t \in Tasks :
        /\ task[t].op = "api" /\ task[t].pc = "transport"
        /\ task[t].method \in SendMethods /\ task[t].chatId # 0
        /\ config.enabled /\ rateLimiter # <<>>
        => "eval" \in task[t].calls

\* ------------------------------------------- claims: lazy initialization
\* Task t begins a request in this step and constructs the RateLimitService
\* (and starts the liveness probe) in it.
Constructs(t) ==
    /\ task[t].pc = "idle" /\ task'[t].op = "rateLimit"
    /\ "ping" \in task'[t].calls

\* A step that keeps the initialization one-shot: a service is constructed
\* only while rateLimiter is null, by one request, which leaves rateLimiter
\* set; the probe is started in that step alone; and a rateLimiter that is
\* set is never replaced or cleared.
InitStep ==
    /\ rateLimiter # <<>> => rateLimiter' = rateLimiter
    /\ rateLimiter' # rateLimiter => \E t \in Tasks : Constructs(t)
    /\ \A t \in Tasks :
          Constructs(t) =>
              /\ rateLimiter = <<>> /\ rateLimiter' # <<>>
              /\ \A u \in Tasks \ {t} : ~Constructs(u)
    /\ task["hc"].op = "none" /\ task'["hc"].op # "none" =>
          \E t \in Tasks : Constructs(t)
    /\ task["hc"].op # "none" => task'["hc"].op = "healthCheck"

\* C26: whatever the interleaving of the inbound requests, the service is
\* constructed at most once and rateLimiter, once set, stays as it is; with
\* rate limiting enabled it is set from the first request on, and with rate
\* limiting disabled it is never set.
C26_InitOnce ==
    /\ [](/\ config.enabled /\ requests > 0 => rateLimiter = <<NewService(TRUE)>>
          /\ ~config.enabled \/ requests = 0 => rateLimiter = <<>>)
    /\ [][InitStep]_vars

\* Two requests of the chat are in flight, their per-chat consumes sent: the
\* one that constructed the service and one that found it.
C26_Witness ==
    /\ rateLimiter # <<>>
    /\ task["t1"].op = "rateLimit" /\ task["t2"].op = "rateLimit"
    /\ task["t1"].pc = "chat" /\ task["t1"].ev = "sent"
    /\ task["t2"].pc = "chat" /\ task["t2"].ev = "sent"
    /\ task["t2"].calls = {"ping", "eval"}
    /\ task["t1"].calls = {"eval"}
    /\ task["hc"].op = "healthCheck"

\* ------------------------------------------- claims: the request context
\* A step that attaches what the engine returned: the per-chat result is
\* kept as returned when the global check is sent, the global result is
\* attached as returned when the decision is taken, and neither changes
\* while the request goes on.
AttachStep ==
    \A t \in Tasks :
        task[t].op = "rateLimit" /\ task'[t].op = "rateLimit" =>
            /\ task[t].pc = "chat" /\ task'[t].pc # "chat" =>
                  /\ task'[t].perChat # <<>>
                  /\ task'[t].perChat[1].allowed = Returned(task[t]).allowed
                  /\ task'[t].perChat[1].remaining = Returned(task[t]).remaining
            /\ task[t].pc = "global" /\ task'[t].pc # "global" =>
                  /\ task'[t].global # <<>>
                  /\ task'[t].global[1].allowed = Returned(task[t]).allowed
                  /\ task'[t].global[1].remaining = Returned(task[t]).remaining
                  /\ task'[t].perChat = task[t].perChat
            /\ task[t].pc \notin {"idle", "chat", "global"} =>
                  /\ task'[t].perChat = task[t].perChat
                  /\ task'[t].global = task[t].global

\* C27: a request with a chat id, handled with the limiter active, has both
\* results on its context, as the engine returned them, whenever next has
\* been invoked for it, a notification has been sent for it, or it waits in
\* its delay.
C27_ResultsAttached ==
    /\ [](\A t \in Tasks :
             /\ task[t].op = "rateLimit" /\ task[t].chatId # 0
             /\ config.enabled /\ rateLimiter # <<>>
             /\ \/ task[t].nextCalls > 0
                \/ task[t].sent # <<>>
                \/ task[t].pc = "delay"
             => task[t].perChat # <<>> /\ task[t].global # <<>>)
    /\ [][AttachStep]_vars

\* A request denied by the chat's bucket alone: the rate-limit notification
\* has been sent, and the context holds the chat's denial beside the global
\* scope's allowance.
C27_Witness ==
    /\ task["t1"].op = "rateLimit" /\ task["t1"].pc = "notify"
    /\ Len(task["t1"].sent) = 1 /\ task["t1"].sent[1].what = "rateLimit"
    /\ task["t1"].nextCalls = 0
    /\ task["t1"].perChat # <<>> /\ ~task["t1"].perChat[1].allowed
    /\ task["t1"].perChat[1].remaining = 0
    /\ task["t1"].global # <<>> /\ task["t1"].global[1].allowed
    /\ task["t1"].global[1].remaining = 1

\* ------------------------------------------------ claims: configured limits
\* The configured limit of the scope of task t's call.
LimitOf(t) ==
    IF t.scope = "chat" THEN config.limits.perChat
    ELSE IF t.scope = "global" THEN config.limits.global
    ELSE config.limits.broadcast

\* C28: the capacity sent to the store is the configured messages value of
\* the scope, and the refill rate is messages per configured window.
C28_ConfiguredLimits ==
    \A t \in Tasks :
        task[t].op = "check" /\ task[t].ev = "sent" =>
            /\ task[t].call.capacity = LimitOf(task[t]).messages
            /\ task[t].call.refillRate * LimitOf(task[t]).window
                 = LimitOf(task[t]).messages * Unit * 1000

\* --------------------------------------- claims: the global scope's burst
\* The burst of the global scope within second 0: the k-th call of the
\* caller, up to the capacity 30, is allowed.
BurstOfGlobal ==
    \A t \in Tasks :
        /\ task[t].pc = "call" /\ task[t].ev = "replied"
        /\ task[t].scope = "global" /\ NowSeconds(clock) = 0
        /\ requests <= GlobalConfig.capacity
        => /\ task[t].reply = <<1, requests>>
           /\ Returned(task[t]).allowed

\* A one-token consume of the global scope with now = 1 that finds the
\* record of second 0 is allowed, whatever was left in it: the refill of one
\* second, capped at the capacity, leaves 30 tokens before the debit.
RefillOfGlobal ==
    \A t \in Tasks, k \in Keys :
        /\ Runs(t, "eval", k)
        /\ task[t].scope = "global" /\ task[t].call.now = 1
        /\ store[k] # NoRec /\ store[k][1].lastRefill = 0
        => /\ task'[t].reply = <<1, 1>>
           /\ store'[k][1].tokens = (GlobalConfig.capacity - 1) * Unit
           /\ store'[k][1].lastRefill = 1

\* C29: on a fresh global bucket 30 one-token consumes at now = 0 are all
\* allowed, and a further one at now = 1 is allowed, the bucket having been
\* refilled to its capacity by the second elapsed.
C29_GlobalBurst ==
    /\ []BurstOfGlobal
    /\ [][RefillOfGlobal]_vars

\* After 30 allowed consumes at now = 0 the global bucket is empty and its
\* record still in the store; the 31st call of the caller has been sent with
\* now = 1.
C29_Witness ==
    /\ requests = GlobalConfig.capacity + 1
    /\ task["t1"].pc = "call" /\ task["t1"].ev = "sent"
    /\ task["t1"].scope = "global" /\ task["t1"].call.now = 1
    /\ store[task["t1"].call.key] # NoRec
    /\ store[task["t1"].call.key][1].tokens = 0
    /\ store[task["t1"].call.key][1].lastRefill = 0

\* ------------------------------------------------ claims: the reset field
\* C30: the reset of a result from the store path is the time at which the
\* bucket, with the tokens the call left in it, is full again:
\* reset - now = (capacity - tokensAfterCall) / refillRate seconds.
C30_ResetWhenFull ==
    \A t \in Tasks :
        /\ task[t].op = "check" /\ task[t].pc = "call" /\ task[t].ev = "replied"
        /\ store[task[t].call.key] # NoRec
        => (Returned(task[t]).reset - clock) * task[t].call.refillRate
               = (task[t].call.capacity * Unit
                    - store[task[t].call.key][1].tokens) * 1000


\* ------------------------------------------- claims: the handler downstream
\* C31: the downstream handler is invoked at most once for a request,
\* whatever onLimit and onRedisError are and whether or not next or a
\* notification raised; and a request whose handler was invoked is never
\* answered with "service temporarily unavailable".
C31_NextAtMostOnce ==
    \A t \in Tasks :
        task[t].op = "rateLimit" =>
            /\ task[t].nextCalls <= 1
            /\ task[t].nextCalls >= 1 => "unavailable" \notin Indications(t)


\* ------------------------------------------------ claims: the inbound gate
\* A step of the gate, for a request t of the middleware.  The per-chat
\* consume is sent only when the request begins and the global consume only
\* when the per-chat consume has returned, whatever it returned; no consume
\* follows the global one.  The store runs a consume of the gate as a
\* consume of one token: when it allows, the record holds one token less
\* than the refilled count, whatever the other scope answered; and a step
\* that takes the decision leaves the store as it is.
GateStep ==
    \A t \in Tasks :
        task'[t].op = "rateLimit" =>
            /\ task'[t].pc = "chat" /\ task[t].pc # "chat" =>
                  /\ Finished(t)
                  /\ task'[t].call.key = PerChatKey(task'[t].chatId)
            /\ task'[t].pc = "global" /\ task[t].pc # "global" =>
                  task[t].pc = "chat"
            /\ task[t].pc = "chat" /\ task'[t].pc # "chat" =>
                  /\ task'[t].pc = "global"
                  /\ task'[t].ev = "sent"
                  /\ task'[t].call.kind = "eval"
                  /\ task'[t].call.key = GlobalKey(BotId)
                  /\ task'[t].call.tokens = 1
            /\ task[t].pc = "global" /\ task'[t].pc # "global" =>
                  /\ task'[t].pc \notin {"chat", "idle"}
                  /\ task'[t].call = NoCall
                  /\ store' = store
            /\ task[t].pc \notin {"idle", "chat", "global"} =>
                  task'[t].pc \notin {"chat", "global"}
            /\ task[t].pc \in {"chat", "global"} /\ Runs(t, "eval", task[t].call.key)
               /\ task'[t].reply[1] = 1 =>
                  LET c == task[t].call
                  IN store'[c.key][1].tokens =
                         Refilled(store[c.key], c.capacity, c.refillRate, c.now) - Unit

\* C32: for a request with a chat id the gate consumes from the per-chat
\* scope and then from the global scope, once each and whatever the first
\* answered; a request denied by one scope has still taken its token from
\* the scope that allowed it, and the token is not given back.
C32_BothScopes == [][GateStep]_vars

\* The per-chat scope has denied the request, and the global consume made
\* for it all the same has taken a token: 29 of 30 are left.
C32_Witness ==
    /\ task["t1"].op = "rateLimit" /\ task["t1"].pc = "global"
    /\ task["t1"].ev = "replied" /\ task["t1"].reply[1] = 1
    /\ ~task["t1"].perChat[1].allowed
    /\ store[GlobalKey(BotId)] # NoRec
    /\ store[GlobalKey(BotId)][1].tokens = (GlobalConfig.capacity - 1) * Unit


\* --------------------------------------------- claims: the statistics query
\* C33: the global statistics of getRateLimitStats are read from the key
\* the inbound gate consumes from for this bot, rate:global:<BotId>.
C33_StatsReadGateKey ==
    \A t \in Tasks :
        task[t].op = "stats" /\ task[t].pc = "statsGlobal" =>
            task[t].call.key = GlobalKey(BotId)


\* ------------------------------------ claims: requests above the capacity
\* The store runs a consume that asks for more tokens than the capacity: it
\* is denied with a positive retryAfter, and the record is written all the
\* same, with at most the capacity, lastRefill = now and a time-to-live
\* counted from this access.
OverCapacityStep ==
    \A t \in Tasks, k \in Keys :
        Runs(t, "eval", k) /\ task[t].call.tokens > task[t].call.capacity =>
            /\ task'[t].reply[1] = 0
            /\ task'[t].reply[3] >= 1
            /\ store'[k] # NoRec
            /\ store'[k][1].tokens <= task[t].call.capacity * Unit
            /\ store'[k][1].lastRefill = task[t].call.now
            /\ store'[k][1].expireAt
                 = ExpireAt(clock, Ttl(task[t].call.capacity,
                                       task[t].call.refillRate))

\* C34: a consume of more tokens than the capacity is denied whatever the
\* record holds and whenever it is run; repeated once the reported
\* retryAfter has passed it is denied again; and each of these denials
\* writes the record and sets its time-to-live anew.
C34_OverCapacityDenied ==
    /\ [](\A k \in Observed : \A d, x \in {hist[k][i] : i \in 1..Len(hist[k])} :
             /\ Repeated(k, d, x)
             /\ d.tokens > ConfigOf(k).capacity
             /\ x.now >= d.now + d.retryAfter
             => ~x.allowed /\ x.retryAfter >= 1)
    /\ [][OverCapacityStep]_vars

\* Two tokens were asked of a bucket of capacity 1 at 40/60 tokens per
\* second and denied with retryAfter = 2; the same request, made 2 s later,
\* has been denied again with the same retryAfter, and the record it wrote
\* is full.
C34_Witness ==
    /\ bucket = [capacity |-> 1, refillRate |-> 40]
    /\ Len(hist[EngineKey]) = 2
    /\ Repeated(EngineKey, hist[EngineKey][1], hist[EngineKey][2])
    /\ hist[EngineKey][1].tokens = 2 /\ hist[EngineKey][1].retryAfter = 2
    /\ hist[EngineKey][2].now = hist[EngineKey][1].now + 2
    /\ ~hist[EngineKey][2].allowed /\ hist[EngineKey][2].retryAfter = 2
    /\ store[EngineKey] # NoRec
    /\ store[EngineKey][1].tokens = Unit
    /\ store[EngineKey][1].lastRefill = 2


\* ------------------------------------------------- claims: the store's expiry
\* What the store would do with the consume c on the record entry: the
\* fields written and the reply.
OutcomeOn(entry, c) ==
    TOKEN_BUCKET_SCRIPT(entry, c.capacity, c.tokens, c.refillRate, c.now)

\* A step in which the store drops the record of key k at its EXPIRE time.
\* The drop goes unnoticed when every consume that can meet the store next
\* fares on the missing record as it would have on the dropped one: the
\* consume of k that is on its way to the store, with the second it read
\* (not before the record's lastRefill), and any consume of one token read
\* from the clock from now on.
ExpiryStep ==
    \A k \in Keys :
        store[k] # NoRec /\ store'[k] = NoRec =>
            /\ \A t \in Tasks :
                   /\ task[t].ev = "sent" /\ task[t].call.kind = "eval"
                   /\ task[t].call.key = k
                   /\ task[t].call.now >= store[k][1].lastRefill
                   => OutcomeOn(NoRec, task[t].call) = OutcomeOn(store[k], task[t].call)
            /\ \A now \in NowSeconds(clock')..NowSeconds(Horizon) :
                   LET c == [capacity |-> ConfigOf(k).capacity, tokens |-> DefaultTokens,
                             refillRate |-> ConfigOf(k).refillRate, now |-> now]
                   IN OutcomeOn(NoRec, c) = OutcomeOn(store[k], c)

\* C35: expiry in the store cannot be observed by the callers: when a record
\* is dropped at the end of its time-to-live, every consume of its key, with
\* timestamps that do not decrease, gets from the empty key the outcome it
\* would have got from the record, and writes the same record.
C35_ExpiryUnobservable == [][ExpiryStep]_vars

====
